---- MODULE Spec2Model ----
(***************************************************************************)
(* Bundle lifecycle engine of cortes-admin (src/lib/services/cut-orders.ts) *)
(* as a state machine over the persisted tables.  Every supabase call is    *)
(* one atomic step of the caller that issues it; callers interleave between *)
(* their calls (each `await`), and any call may fail.                       *)
(*                                                                         *)
(* Strings are sequences of one-character strings, so that trim and case    *)
(* conversion are computed.  A null / undefined string is the empty         *)
(* sequence: the code tests these values only with `!value`, `?? ""` and    *)
(* `|| null`, which do not tell the two apart.                              *)
(***************************************************************************)
EXTENDS Integers, Sequences, FiniteSets, TLC

\* ------------------------------------------------------------------ bounds
\* Concurrent callers (browser sessions) of the service.
Callers == {"c1", "c2"}
\* Calls started over a behaviour, createCutOrder calls among them, and
\* persistence calls that fail.
MaxCalls == 3
MaxOrders == 1
MaxFailures == 1
\* Rows of the bultos table.
MaxBundles == 3
\* Bundles in one createCutOrder input.
MaxNewBundles == 2
\* Reading at which the wall clock stops advancing: later readings tie.
MaxTime == 3
MaxBase == 998
MaxVariant == 998
MaxStored == 5000
MaxHistory == 3
MaxVolume == 1000

\* ----------------------------------------------------------------- strings
Blank == " "

RECURSIVE TrimStart(_)
TrimStart(s) ==
    IF s # <<>> /\ Head(s) = Blank THEN TrimStart(Tail(s)) ELSE s

RECURSIVE TrimEnd(_)
TrimEnd(s) ==
    IF s # <<>> /\ s[Len(s)] = Blank THEN TrimEnd(SubSeq(s, 1, Len(s) - 1)) ELSE s

\* String.prototype.trim
Trim(s) == TrimEnd(TrimStart(s))

UpperOf(ch) ==
    CASE ch = "c" -> "C"
      [] ch = "x" -> "X"
      [] ch = "u" -> "U"
      [] ch = "i" -> "I"
      [] ch = "a" -> "A"
      [] OTHER -> ch

LowerOf(ch) ==
    CASE ch = "C" -> "c"
      [] ch = "X" -> "x"
      [] ch = "U" -> "u"
      [] ch = "I" -> "i"
      [] ch = "A" -> "a"
      [] OTHER -> ch

\* String.prototype.toUpperCase / toLowerCase over the letters the inputs use
ToUpperCase(s) == [i \in 1..Len(s) |-> UpperOf(s[i])]
ToLowerCase(s) == [i \in 1..Len(s) |-> LowerOf(s[i])]

\* --------------------------------------------------------------- sequences
Range(s) == {s[i] : i \in 1..Len(s)}

\* Array.from(new Set(codes)): first occurrences, in order
RECURSIVE Unique(_)
Unique(s) ==
    IF s = <<>> THEN <<>>
    ELSE LET r == Unique(SubSeq(s, 1, Len(s) - 1))
             x == s[Len(s)]
         IN IF x \in Range(r) THEN r ELSE Append(r, x)

SelectIdx(s, keep, i) ==
    LET kept == {j \in i..Len(s) : keep[j]}
        nth(p) == CHOOSE j \in kept : Cardinality({k \in kept : k < j}) = p - 1
    IN [p \in 1..Cardinality(kept) |-> s[nth(p)]]

\* the elements of a set of numbers in ascending order
RECURSIVE Ascending(_)
Ascending(S) ==
    IF S = {} THEN <<>>
    ELSE LET m == CHOOSE x \in S : \A y \in S : x <= y
         IN <<m>> \o Ascending(S \ {m})

SetMax(S) == CHOOSE x \in S : \A y \in S : y <= x

\* ------------------------------------------------------------ number codec
BUNDLE_SPLIT_NUMBER_FACTOR == 1000

\* null where a number is expected: the numbers the code stores and computes
\* are never negative, so a negative integer stands for null
NULL == -1

\* the decoding that keeps a remainder of 0
decodeBundleNumber_RawRemainder(value) ==
    IF value = NULL
    THEN [base |-> NULL, variant |-> NULL]
    ELSE IF value >= BUNDLE_SPLIT_NUMBER_FACTOR
    THEN [base |-> value \div BUNDLE_SPLIT_NUMBER_FACTOR,
          variant |-> value % BUNDLE_SPLIT_NUMBER_FACTOR]
    ELSE [base |-> value, variant |-> 1]

decodeBundleNumber(value) ==
    IF value = NULL
    THEN [base |-> NULL, variant |-> NULL]
    ELSE IF value >= BUNDLE_SPLIT_NUMBER_FACTOR
    THEN [base |-> value \div BUNDLE_SPLIT_NUMBER_FACTOR,
          variant |-> IF value % BUNDLE_SPLIT_NUMBER_FACTOR = 0
                      THEN 1 ELSE value % BUNDLE_SPLIT_NUMBER_FACTOR]
    ELSE [base |-> value, variant |-> 1]

\* the code that adds the base to the variant
encodeBundleNumber_Sum(base, variant) == base + variant

encodeBundleNumber(base, variant) == base * BUNDLE_SPLIT_NUMBER_FACTOR + variant

\* ------------------------------------------------------- locations, status
LOCATION_CODES ==
    { <<"C", "1">>, <<"C", "2">>, <<"C", "3">>, <<"C", "4">>, <<"C", "5">>,
      <<"C", "6">>, <<"C", "7">>, <<"C", "8">>, <<"C", "9">>, <<"C", "1", "0">> }

isValidLocationCode(value) == value \in LOCATION_CODES

\* the normalisation that accepts any code that is not blank
normalizeLocationCode_AnyCode(value) ==
    IF value = <<>> THEN <<>> ELSE ToUpperCase(Trim(value))

\* normalizeLocationCode: the code, or <<>> for null
normalizeLocationCode(value) ==
    IF value = <<>> THEN <<>>
    ELSE LET normalized == ToUpperCase(Trim(value))
         IN IF Len(normalized) = 0 THEN <<>>
            ELSE IF isValidLocationCode(normalized) THEN normalized
            ELSE <<>>

DEFAULT_BUNDLE_STATUS == "disponible"

\* the keys of bundleStatusLabels, spelled out
StatusKey(st) ==
    CASE st = "disponible" -> <<"d", "i", "s", "p", "o", "n", "i", "b", "l", "e">>
      [] st = "asignado" -> <<"a", "s", "i", "g", "n", "a", "d", "o">>
      [] st = "usado" -> <<"u", "s", "a", "d", "o">>

BundleStatusEnum == {"disponible", "asignado", "usado"}

bundleStatusFromInput(value) ==
    IF value = <<>> THEN DEFAULT_BUNDLE_STATUS
    ELSE LET normalized == Trim(ToLowerCase(value))
         IN IF normalized # <<>> /\ \E st \in BundleStatusEnum : StatusKey(st) = normalized
            THEN CHOOSE st \in BundleStatusEnum : StatusKey(st) = normalized
            ELSE DEFAULT_BUNDLE_STATUS

\* bundleStatusByAction: the status an action sets, "" when it sets none
bundleStatusByAction(action) ==
    CASE action = "asignar" -> "asignado"
      [] action = "utilizar" -> "usado"
      [] OTHER -> ""

\* -------------------------------------------------------------------- state
VARIABLES
    ordenes,      \* table ordenes_corte: row id = index
    bultos,       \* table bultos: row id = index
    historial,    \* table historial_bultos, in insertion order
    ubicaciones,  \* table ubicaciones: the codigo of each row, row id = index
    now,          \* the wall clock
    call,         \* per caller: the call in flight, its position and its locals
    result,       \* per caller: how its latest call ended
    calls,        \* calls started so far
    failures,     \* persistence calls that have failed so far
    input         \* per caller: the arguments it passes, where a caller is given them

vars == <<ordenes, bultos, historial, ubicaciones, now, call, result, calls, failures, input>>
db == <<ordenes, bultos, historial, ubicaciones>>

Idle == [op |-> "none", pc |-> "idle"]
\* a caller that chooses its arguments call by call
NoInput == [op |-> "none"]

\* new Date() / the store's now(): the reading is the clock's value, and the
\* clock moves on by one until MaxTime, where readings tie
Clock(t) ==
    /\ t = now
    /\ now' = IF now < MaxTime THEN now + 1 ELSE now

\* callers are interchangeable: a call that starts while no other is in flight
\* is taken to be the first caller's
MayStart(c) ==
    /\ call[c].pc = "idle"
    /\ calls < MaxCalls
    /\ c = "c1" \/ call["c1"].pc \notin {"idle", "returned"}

\* the count of calls that reached the store
Counted == IF \E c \in Callers : call'[c].pc \notin {"idle", "returned"} /\ call[c].pc = "idle"
           THEN calls' = calls + 1 ELSE UNCHANGED calls

BundleIds == 1..Len(bultos)
OrderBundles(rows, orderId) == {i \in 1..Len(rows) : rows[i].orden_corte_id = orderId}

\* rows of ubicaciones whose codigo is one of codes, as the map the code builds
\* from them (a later row of the same codigo overwrites an earlier one)
LocationRows(rows, codes) ==
    LET found == {cd \in Range(codes) : \E i \in 1..Len(rows) : rows[i] = cd}
    IN [cd \in found |-> SetMax({i \in 1..Len(rows) : rows[i] = cd})]

MissingCodes(uniqueCodes, map) ==
    SelectIdx(uniqueCodes, [i \in 1..Len(uniqueCodes) |-> uniqueCodes[i] \notin DOMAIN map], 1)

\* bundles an in-flight call may still insert
PendingInserts(c) ==
    IF call[c].op = "create" /\ call[c].pc \in {"loc_sel", "loc_ins", "c_order", "c_bultos"}
    THEN Len(call[c].bundles)
    ELSE IF call[c].op = "split" /\ call[c].pc \in {"s_fetch", "s_siblings", "s_update", "s_number", "s_insert"}
    THEN 1
    ELSE 0

PendingOrders(c) ==
    IF call[c].op = "create" /\ call[c].pc \in {"loc_sel", "loc_ins", "c_order"} THEN 1 ELSE 0

RECURSIVE SumOver(_, _)
SumOver(S, f) ==
    IF S = {} THEN 0
    ELSE LET x == CHOOSE y \in S : TRUE IN f[x] + SumOver(S \ {x}, f)

RoomForBundles(n) ==
    Len(bultos) + SumOver(Callers, [c \in Callers |-> PendingInserts(c)]) + n <= MaxBundles

RoomForOrder ==
    Len(ordenes) + SumOver(Callers, [c \in Callers |-> PendingOrders(c)]) < MaxOrders

\* how a call ends: the promise settles and the locals are gone; "at" keeps
\* the persistence call the function was at
Return(c, how) ==
    /\ call' = [call EXCEPT ![c] = [op |-> @.op, pc |-> "returned", at |-> @.pc]]
    /\ result' = [result EXCEPT ![c] = how]
    /\ UNCHANGED input

\* a call that throws before its first persistence call
Reject(c, op) ==
    /\ call' = [call EXCEPT ![c] = [op |-> op, pc |-> "returned", at |-> "entry"]]
    /\ result' = [result EXCEPT ![c] = "error"]
    /\ UNCHANGED input

\* how a call moves on to its next persistence call
Goto(c, locals) ==
    /\ call' = [call EXCEPT ![c] = locals]
    /\ UNCHANGED <<result, input>>

\* ------------------------------------------------------------------- inputs
BundleInputs ==
    { [currentLocation |-> <<" ", "c", "1">>, sheets |-> 3, status |-> <<>>],
      [currentLocation |-> <<"X", "1">>, sheets |-> 2, status |-> <<"U", "s", "a", "d", "o", " ">>],
      [currentLocation |-> <<>>, sheets |-> 2,
       status |-> <<" ", "A", "s", "i", "g", "n", "a", "d", "o">>] }

BundleInputLists == UNION {[1..n -> BundleInputs] : n \in 0..MaxNewBundles}

OrderStatusInputs == {"Activo", "Inactivo"}
\* the actions of applyBundleAction; a call of it is named by its action
ActionInputs == {"mover", "asignar", "utilizar"}
LocationFilterInputs == {<<>>, <<"c", "2">>}

\* an empty store and no call made
InitStore ==
    /\ ordenes = <<>>
    /\ bultos = <<>>
    /\ historial = <<>>
    /\ ubicaciones = <<>>
    /\ now = 0
    /\ call = [c \in Callers |-> Idle]
    /\ result = [c \in Callers |-> "none"]
    /\ calls = 0
    /\ failures = 0

Init ==
    /\ InitStore
    /\ input = [c \in Callers |-> NoInput]

\* ------------------------------------------------------- ensureLocationMap
\* ensureLocationMap up to its first query: the empty list returns {} at once
EnsureLocationStart(c, locals, codes, cont) ==
    IF codes = <<>>
    THEN Goto(c, [locals EXCEPT !.pc = cont, !.locMap = <<>>])
    ELSE Goto(c, [locals EXCEPT !.pc = "loc_sel", !.uniqueCodes = Unique(codes)])

\* where a call goes on once ensureLocationMap has returned map
AfterLocations(c, map) ==
    IF call[c].op = "create"
    THEN Goto(c, [call[c] EXCEPT !.pc = "c_order", !.locMap = map])
    ELSE LET id == IF call[c].destination \in DOMAIN map THEN map[call[c].destination] ELSE 0
         IN IF id = 0
            THEN Return(c, "error")
            ELSE Goto(c, [call[c] EXCEPT !.pc = "a_update", !.locationId = id])

\* select id, codigo from ubicaciones where codigo in uniqueCodes
LocationSelect(c) ==
    /\ call[c].pc = "loc_sel"
    /\ LET map == LocationRows(ubicaciones, call[c].uniqueCodes)
           missing == MissingCodes(call[c].uniqueCodes, map)
       IN IF missing = <<>>
          THEN AfterLocations(c, map)
          ELSE Goto(c, [call[c] EXCEPT !.pc = "loc_ins", !.locMap = map])
    /\ UNCHANGED <<db, now, calls, failures>>

\* insert into ubicaciones the missing codes
LocationInsert(c) ==
    /\ call[c].pc = "loc_ins"
    /\ LET missing == MissingCodes(call[c].uniqueCodes, call[c].locMap)
           rows == ubicaciones \o missing
           map == [cd \in DOMAIN call[c].locMap \cup Range(missing) |->
                      IF cd \in Range(missing)
                      THEN Len(ubicaciones) + (CHOOSE i \in 1..Len(missing) : missing[i] = cd)
                      ELSE call[c].locMap[cd]]
       IN /\ ubicaciones' = rows
          /\ AfterLocations(c, map)
    /\ UNCHANGED <<ordenes, bultos, historial, now, calls, failures>>

\* ----------------------------------------------------------- createCutOrder
\* createCutOrder from its call to its first persistence call
createCutOrderStart(c, status, locationFilter, bundles) ==
    LET first == IF bundles = <<>> THEN <<>> ELSE bundles[1].currentLocation
        defaultLocationCode ==
            normalizeLocationCode(IF locationFilter # <<>> THEN locationFilter ELSE first)
        normalized == [i \in 1..Len(bundles) |->
                          normalizeLocationCode(bundles[i].currentLocation)]
        locationCodes ==
            SelectIdx(normalized, [i \in 1..Len(bundles) |-> normalized[i] # <<>>], 1)
            \o (IF defaultLocationCode # <<>> THEN <<defaultLocationCode>> ELSE <<>>)
        locals == [op |-> "create", pc |-> "idle",
                   isActive |-> status # "Inactivo",
                   defaultLocationCode |-> defaultLocationCode,
                   bundles |-> bundles,
                   uniqueCodes |-> <<>>, locMap |-> <<>>,
                   orderId |-> 0, createdBundles |-> <<>>]
    IN EnsureLocationStart(c, locals, locationCodes, "c_order")

\* a caller calls createCutOrder
CreateCall(c) ==
    /\ MayStart(c)
    /\ RoomForOrder
    /\ \E status \in OrderStatusInputs, locationFilter \in LocationFilterInputs,
          bundles \in BundleInputLists :
          /\ RoomForBundles(Len(bundles))
          /\ createCutOrderStart(c, status, locationFilter, bundles)
    /\ Counted
    /\ UNCHANGED <<db, now, failures>>

\* insert into ordenes_corte
CreateInsertOrder(c) ==
    /\ call[c].op = "create" /\ call[c].pc = "c_order"
    /\ ordenes' = Append(ordenes, [activo |-> call[c].isActive,
                                   cantidad_bultos |-> Len(call[c].bundles)])
    /\ IF Len(call[c].bundles) = 0
       THEN Return(c, "ok")
       ELSE Goto(c, [call[c] EXCEPT !.pc = "c_bultos", !.orderId = Len(ordenes) + 1])
    /\ UNCHANGED <<bultos, historial, ubicaciones, now, calls, failures>>

\* the row createCutOrder builds for the bundle at index (bundlesPayload)
bundlesPayload(locals, index, createdAt) ==
    LET bundle == locals.bundles[index]
        own == normalizeLocationCode(bundle.currentLocation)
        fallbackCode == IF own # <<>> THEN own ELSE locals.defaultLocationCode
        locationId == IF fallbackCode # <<>> /\ fallbackCode \in DOMAIN locals.locMap
                      THEN locals.locMap[fallbackCode] ELSE 0
    IN [orden_corte_id |-> locals.orderId,
        numero_bulto |-> index,
        ubicacion_id |-> locationId,
        cantidad_laminas |-> bundle.sheets,
        estado |-> bundleStatusFromInput(bundle.status),
        SSCC |-> <<>>,
        LUID |-> <<>>,
        creado_en |-> createdAt]

\* insert into bultos the initial bundles
CreateInsertBundles(c) ==
    /\ call[c].op = "create" /\ call[c].pc = "c_bultos"
    /\ \E t \in 0..MaxTime :
          /\ Clock(t)
          /\ bultos' = bultos \o [i \in 1..Len(call[c].bundles) |-> bundlesPayload(call[c], i, t)]
    /\ Goto(c, [call[c] EXCEPT !.pc = "c_hist",
                               !.createdBundles =
                                   [i \in 1..Len(call[c].bundles) |->
                                       [id |-> Len(bultos) + i,
                                        ubicacion_id |-> bundlesPayload(call[c], i, 0).ubicacion_id]]])
    /\ UNCHANGED <<ordenes, historial, ubicaciones, calls, failures>>

\* insert into historial_bultos the initial "mover" entries
CreateInsertHistory(c) ==
    /\ call[c].op = "create" /\ call[c].pc = "c_hist"
    /\ \E t \in 0..MaxTime :
          /\ Clock(t)
          /\ historial' = historial \o
                [i \in 1..Len(call[c].createdBundles) |->
                    [bulto_id |-> call[c].createdBundles[i].id,
                     accion |-> "mover",
                     ubicacion_destino_id |-> call[c].createdBundles[i].ubicacion_id,
                     numero_trabajo |-> <<>>,
                     fecha_hora |-> t]]
    /\ Return(c, "ok")
    /\ UNCHANGED <<ordenes, bultos, ubicaciones, calls, failures>>

\* -------------------------------------------------------------- splitBundle
SplitSheetInputs == {0, 1}
OriginalSSCCInputs == {<<>>, <<" ", "S", "1">>}
OriginalLUIDInputs == {<<" ">>, <<"L", "1">>}
NewSSCCInputs == {<<>>, <<"S", "2", " ">>}
NewLUIDInputs == {<<" ">>, <<"L", "2">>}

\* the bundles of the order that decode to the base (relatedBundles)
relatedBundles(rows, orderId, base) ==
    {i \in OrderBundles(rows, orderId) : decodeBundleNumber(rows[i].numero_bulto).base = base}

\* nextVariant: one more than the highest variant in the sibling group
nextVariant(rows, orderId, base) ==
    LET usedVariants == {decodeBundleNumber(rows[i].numero_bulto).variant :
                            i \in relatedBundles(rows, orderId, base)} \ {NULL}
        highestVariant == IF usedVariants # {} THEN SetMax(usedVariants) ELSE 1
    IN highestVariant + 1

shouldNormalizeNumber(numero) == numero = NULL \/ numero < BUNDLE_SPLIT_NUMBER_FACTOR

\* the subtraction with its operands exchanged
remainingSheets_Reversed(currentSheets, sheets) == sheets - currentSheets

remainingSheets(currentSheets, sheets) == currentSheets - sheets

\* splitBundle from its call to its first persistence call: the checks on
\* the arguments
splitBundleStart(c, bundleId, orderId, sheets, oSSCC, oLUID, nSSCC, nLUID) ==
    IF sheets <= 0
    THEN Reject(c, "split")
    ELSE IF Trim(oSSCC) = <<>> \/ Trim(oLUID) = <<>> \/ Trim(nSSCC) = <<>> \/ Trim(nLUID) = <<>>
    THEN Reject(c, "split")
    ELSE Goto(c, [op |-> "split", pc |-> "s_fetch",
                  bundleId |-> bundleId, orderId |-> orderId, sheets |-> sheets,
                  normalizedOriginalSSCC |-> Trim(oSSCC),
                  normalizedOriginalLUID |-> Trim(oLUID),
                  normalizedSplitSSCC |-> Trim(nSSCC),
                  normalizedSplitLUID |-> Trim(nLUID),
                  bundle |-> <<>>, bundleBaseNumber |-> 0, nextVariant |-> 0,
                  newBundleId |-> 0])

\* a caller calls splitBundle
SplitCall(c) ==
    /\ MayStart(c)
    /\ RoomForBundles(1)
    /\ \E bundleId \in BundleIds, orderId \in 0..Len(ordenes), sheets \in SplitSheetInputs,
          oSSCC \in OriginalSSCCInputs, oLUID \in OriginalLUIDInputs,
          nSSCC \in NewSSCCInputs, nLUID \in NewLUIDInputs :
          splitBundleStart(c, bundleId, orderId, sheets, oSSCC, oLUID, nSSCC, nLUID)
    /\ Counted
    /\ UNCHANGED <<db, now, failures>>

\* the checks on what was read without the one on the base number
SplitFetch_NoBaseCheck(c) ==
    /\ call[c].op = "split" /\ call[c].pc = "s_fetch"
    /\ LET bundle == bultos[call[c].bundleId]
           base == decodeBundleNumber(bundle.numero_bulto).base
       IN IF bundle.orden_corte_id # call[c].orderId
          THEN Return(c, "error")
          ELSE IF call[c].sheets >= bundle.cantidad_laminas
          THEN Return(c, "error")
          ELSE Goto(c, [call[c] EXCEPT !.pc = "s_siblings", !.bundle = bundle,
                                       !.bundleBaseNumber = base])
    /\ UNCHANGED <<db, now, calls, failures>>

\* select the bundle; the checks on what was read
SplitFetch(c) ==
    /\ call[c].op = "split" /\ call[c].pc = "s_fetch"
    /\ LET bundle == bultos[call[c].bundleId]
           base == decodeBundleNumber(bundle.numero_bulto).base
       IN IF bundle.orden_corte_id # call[c].orderId
          THEN Return(c, "error")
          ELSE IF call[c].sheets >= bundle.cantidad_laminas
          THEN Return(c, "error")
          ELSE IF base = NULL \/ base = 0
          THEN Return(c, "error")
          ELSE Goto(c, [call[c] EXCEPT !.pc = "s_siblings", !.bundle = bundle,
                                       !.bundleBaseNumber = base])
    /\ UNCHANGED <<db, now, calls, failures>>

\* select the bundles of the order; the variant of the new bundle
SplitSiblings(c) ==
    /\ call[c].op = "split" /\ call[c].pc = "s_siblings"
    /\ Goto(c, [call[c] EXCEPT !.pc = "s_update",
                               !.nextVariant = nextVariant(bultos, call[c].orderId,
                                                           call[c].bundleBaseNumber)])
    /\ UNCHANGED <<db, now, calls, failures>>

\* the update that also puts the original back to the default status
SplitUpdate_ResetsStatus(c) ==
    /\ call[c].op = "split" /\ call[c].pc = "s_update"
    /\ bultos' = [bultos EXCEPT ![call[c].bundleId] =
                     [@ EXCEPT !.cantidad_laminas =
                                   remainingSheets(call[c].bundle.cantidad_laminas, call[c].sheets),
                               !.estado = DEFAULT_BUNDLE_STATUS,
                               !.SSCC = call[c].normalizedOriginalSSCC,
                               !.LUID = call[c].normalizedOriginalLUID]]
    /\ Goto(c, [call[c] EXCEPT !.pc =
                    IF shouldNormalizeNumber(call[c].bundle.numero_bulto)
                    THEN "s_number" ELSE "s_insert"])
    /\ UNCHANGED <<ordenes, historial, ubicaciones, now, calls, failures>>

\* update the original: remaining sheets and identifiers
SplitUpdate(c) ==
    /\ call[c].op = "split" /\ call[c].pc = "s_update"
    /\ bultos' = [bultos EXCEPT ![call[c].bundleId] =
                     [@ EXCEPT !.cantidad_laminas =
                                   remainingSheets(call[c].bundle.cantidad_laminas, call[c].sheets),
                               !.SSCC = call[c].normalizedOriginalSSCC,
                               !.LUID = call[c].normalizedOriginalLUID]]
    /\ Goto(c, [call[c] EXCEPT !.pc =
                    IF shouldNormalizeNumber(call[c].bundle.numero_bulto)
                    THEN "s_number" ELSE "s_insert"])
    /\ UNCHANGED <<ordenes, historial, ubicaciones, now, calls, failures>>

\* update the original: its number in encoded form
SplitNormalizeNumber(c) ==
    /\ call[c].op = "split" /\ call[c].pc = "s_number"
    /\ bultos' = [bultos EXCEPT ![call[c].bundleId].numero_bulto =
                     encodeBundleNumber(call[c].bundleBaseNumber, 1)]
    /\ Goto(c, [call[c] EXCEPT !.pc = "s_insert"])
    /\ UNCHANGED <<ordenes, historial, ubicaciones, now, calls, failures>>

\* insert the new bundle
SplitInsert(c) ==
    /\ call[c].op = "split" /\ call[c].pc = "s_insert"
    /\ \E t \in 0..MaxTime :
          /\ Clock(t)
          /\ bultos' = Append(bultos,
                [orden_corte_id |-> call[c].orderId,
                 numero_bulto |-> encodeBundleNumber(call[c].bundleBaseNumber, call[c].nextVariant),
                 ubicacion_id |-> call[c].bundle.ubicacion_id,
                 cantidad_laminas |-> call[c].sheets,
                 estado |-> call[c].bundle.estado,
                 SSCC |-> call[c].normalizedSplitSSCC,
                 LUID |-> call[c].normalizedSplitLUID,
                 creado_en |-> t])
    /\ Goto(c, [call[c] EXCEPT !.pc = "s_hist", !.newBundleId = Len(bultos) + 1])
    /\ UNCHANGED <<ordenes, historial, ubicaciones, calls, failures>>

\* the insert that records the split for the new bundle alone
SplitInsertHistory_NewOnly(c) ==
    /\ call[c].op = "split" /\ call[c].pc = "s_hist"
    /\ \E splitTimestamp \in 0..MaxTime :
          /\ Clock(splitTimestamp)
          /\ historial' = Append(historial,
                    [bulto_id |-> call[c].newBundleId,
                     accion |-> "dividir",
                     ubicacion_destino_id |-> call[c].bundle.ubicacion_id,
                     numero_trabajo |-> <<>>,
                     fecha_hora |-> splitTimestamp])
    /\ Return(c, "ok")
    /\ UNCHANGED <<ordenes, bultos, ubicaciones, calls, failures>>

\* insert into historial_bultos the two "dividir" entries
SplitInsertHistory(c) ==
    /\ call[c].op = "split" /\ call[c].pc = "s_hist"
    /\ \E splitTimestamp \in 0..MaxTime :
          /\ Clock(splitTimestamp)
          /\ historial' = historial \o
                [i \in 1..2 |->
                    [bulto_id |-> IF i = 1 THEN call[c].bundleId ELSE call[c].newBundleId,
                     accion |-> "dividir",
                     ubicacion_destino_id |-> call[c].bundle.ubicacion_id,
                     numero_trabajo |-> <<>>,
                     fecha_hora |-> splitTimestamp]]
    /\ Return(c, "ok")
    /\ UNCHANGED <<ordenes, bultos, ubicaciones, calls, failures>>

\* -------------------------------------------------------- applyBundleAction
DestinationInputs == {<<>>, <<"c", "2", " ">>, <<"X", "1">>}
OrderNumberInputs == {<<>>, <<" ">>, <<" ", "W", "1">>}

\* the guard rejecting only bundles that are already "usado"
invalidForUse_OnlyUsed(rows, bundleIds) ==
    {i \in bundleIds : rows[i].estado = "usado"}

\* the targeted bundles the "utilizar" guard rejects (invalid)
invalidForUse(rows, bundleIds) == {i \in bundleIds : rows[i].estado # "asignado"}

\* the update that writes a status whatever the action
withUpdatePayload_AlwaysStatus(row, locationId, nextStatus) ==
    [row EXCEPT !.ubicacion_id = IF locationId # 0 THEN locationId ELSE @,
                !.estado = IF nextStatus # "" THEN nextStatus ELSE DEFAULT_BUNDLE_STATUS]

\* a bundle row after update(updatePayload)
withUpdatePayload(row, locationId, nextStatus) ==
    [row EXCEPT !.ubicacion_id = IF locationId # 0 THEN locationId ELSE @,
                !.estado = IF nextStatus # "" THEN nextStatus ELSE @]

\* orders whose last bundle not yet "usado" the update has just turned "usado"
ClosedBy(before, after, bundleIds) ==
    {o \in {before[i].orden_corte_id : i \in bundleIds} :
        /\ \A i \in OrderBundles(after, o) : after[i].estado = "usado"
        /\ \E i \in OrderBundles(before, o) \cap bundleIds : before[i].estado # "usado"}

\* the work-order number taken as it was passed
normalizedOrder_Untrimmed(orderNumber) == orderNumber

\* normalizedOrder: orderNumber?.trim() ?? ""
normalizedOrder(orderNumber) == Trim(orderNumber)

\* the entry of applyBundleAction without its check of the list of bundle ids
applyBundleActionStart_NoEmptyCheck(c, bundleIds, action, destinationCode, orderNumber) ==
    LET normalizedDestination == normalizeLocationCode(destinationCode)
        historyWorkOrder == normalizedOrder(orderNumber)
        locals == [op |-> action, pc |-> "idle",
                   bundleIds |-> bundleIds, action |-> action,
                   destination |-> IF action = "mover" THEN normalizedDestination ELSE <<>>,
                   locationId |-> 0,
                   historyWorkOrder |-> IF action = "asignar" THEN historyWorkOrder ELSE <<>>,
                   uniqueCodes |-> <<>>, locMap |-> <<>>, pending |-> <<>>,
                   activo |-> FALSE, closed |-> {}, excused |-> {}]
    IN IF action = "utilizar"
       THEN Goto(c, [locals EXCEPT !.pc = "a_validate"])
       ELSE IF action = "mover"
       THEN IF normalizedDestination = <<>>
            THEN Reject(c, action)
            ELSE EnsureLocationStart(c, locals, <<normalizedDestination>>, "a_update")
       ELSE IF historyWorkOrder = <<>>
            THEN Reject(c, action)
            ELSE Goto(c, [locals EXCEPT !.pc = "a_update"])

\* applyBundleAction from its call to its first persistence call: the checks
\* on the arguments
applyBundleActionStart(c, bundleIds, action, destinationCode, orderNumber) ==
    LET normalizedDestination == normalizeLocationCode(destinationCode)
        historyWorkOrder == normalizedOrder(orderNumber)
        locals == [op |-> action, pc |-> "idle",
                   bundleIds |-> bundleIds, action |-> action,
                   destination |-> IF action = "mover" THEN normalizedDestination ELSE <<>>,
                   locationId |-> 0,
                   historyWorkOrder |-> IF action = "asignar" THEN historyWorkOrder ELSE <<>>,
                   uniqueCodes |-> <<>>, locMap |-> <<>>, pending |-> <<>>,
                   activo |-> FALSE, closed |-> {}, excused |-> {}]
    IN IF bundleIds = {}
       THEN Reject(c, action)
       ELSE IF action = "utilizar"
       THEN Goto(c, [locals EXCEPT !.pc = "a_validate"])
       ELSE IF action = "mover"
       THEN IF normalizedDestination = <<>>
            THEN Reject(c, action)
            ELSE EnsureLocationStart(c, locals, <<normalizedDestination>>, "a_update")
       ELSE IF historyWorkOrder = <<>>
            THEN Reject(c, action)
            ELSE Goto(c, [locals EXCEPT !.pc = "a_update"])

\* a caller calls applyBundleAction
ApplyCall(c) ==
    /\ MayStart(c)
    /\ \E bundleIds \in SUBSET BundleIds, action \in ActionInputs,
          destinationCode \in DestinationInputs, orderNumber \in OrderNumberInputs :
          applyBundleActionStart(c, bundleIds, action, destinationCode, orderNumber)
    /\ Counted
    /\ UNCHANGED <<db, now, failures>>

\* "utilizar": select id, estado of the targeted bundles; all must be "asignado"
ApplyValidateUse(c) ==
    /\ call[c].op \in ActionInputs /\ call[c].pc = "a_validate"
    /\ IF invalidForUse(bultos, call[c].bundleIds) # {}
       THEN Return(c, "error")
       ELSE Goto(c, [call[c] EXCEPT !.pc = "a_update"])
    /\ UNCHANGED <<db, now, calls, failures>>

\* update bultos set updatePayload where id in bundleIds
ApplyUpdate(c) ==
    /\ call[c].op \in ActionInputs /\ call[c].pc = "a_update"
    /\ LET after == [i \in 1..Len(bultos) |->
                        IF i \in call[c].bundleIds
                        THEN withUpdatePayload(bultos[i], call[c].locationId,
                                               bundleStatusByAction(call[c].action))
                        ELSE bultos[i]]
       IN /\ bultos' = after
          /\ Goto(c, [call[c] EXCEPT !.pc = "a_hist",
                                     !.closed = ClosedBy(bultos, after, call[c].bundleIds)])
    /\ UNCHANGED <<ordenes, historial, ubicaciones, now, calls, failures>>

\* the insert that writes each new entry over the bundle's latest one
ApplyInsertHistory_Overwrites(c) ==
    /\ call[c].op \in ActionInputs /\ call[c].pc = "a_hist"
    /\ \E t \in 0..MaxTime :
          /\ Clock(t)
          /\ LET entry(i) == [bulto_id |-> i,
                              accion |-> call[c].action,
                              ubicacion_destino_id |-> call[c].locationId,
                              numero_trabajo |-> call[c].historyWorkOrder,
                              fecha_hora |-> t]
                 latest(i) == SetMax({h \in 1..Len(historial) : historial[h].bulto_id = i} \cup {0})
             IN historial' = [h \in 1..Len(historial) |->
                                 IF \E i \in call[c].bundleIds : latest(i) = h
                                 THEN entry(historial[h].bulto_id) ELSE historial[h]]
    /\ Goto(c, [call[c] EXCEPT !.pc = "k_ids"])
    /\ UNCHANGED <<ordenes, bultos, ubicaciones, calls, failures>>

\* the insert that records the action for the first targeted bundle alone
ApplyInsertHistory_FirstOnly(c) ==
    /\ call[c].op \in ActionInputs /\ call[c].pc = "a_hist"
    /\ \E t \in 0..MaxTime :
          /\ Clock(t)
          /\ LET ids == Ascending(call[c].bundleIds)
             IN historial' = Append(historial,
                       [bulto_id |-> ids[1],
                        accion |-> call[c].action,
                        ubicacion_destino_id |-> call[c].locationId,
                        numero_trabajo |-> call[c].historyWorkOrder,
                        fecha_hora |-> t])
    /\ Goto(c, [call[c] EXCEPT !.pc = "k_ids"])
    /\ UNCHANGED <<ordenes, bultos, ubicaciones, calls, failures>>

\* insert into historial_bultos one entry per targeted bundle
ApplyInsertHistory(c) ==
    /\ call[c].op \in ActionInputs /\ call[c].pc = "a_hist"
    /\ \E t \in 0..MaxTime :
          /\ Clock(t)
          /\ LET ids == Ascending(call[c].bundleIds)
             IN historial' = historial \o
                   [i \in 1..Len(ids) |->
                       [bulto_id |-> ids[i],
                        accion |-> call[c].action,
                        ubicacion_destino_id |-> call[c].locationId,
                        numero_trabajo |-> call[c].historyWorkOrder,
                        fecha_hora |-> t]]
    /\ Goto(c, [call[c] EXCEPT !.pc = "k_ids"])
    /\ UNCHANGED <<ordenes, bultos, ubicaciones, calls, failures>>

\* ------------------------------------------------ checkAndUpdateOrderStatus
\* the recomputation writing the flag either way
orderStatusUpdate_BothWays(rows, orderId) ==
    LET allUsed == \A i \in OrderBundles(rows, orderId) : rows[i].estado = "usado"
    IN IF allUsed THEN <<FALSE>> ELSE <<TRUE>>

\* the recomputation with its test turned into one that never holds
orderStatusUpdate_Contradiction(rows, orderId) ==
    LET allUsed == \A i \in OrderBundles(rows, orderId) : rows[i].estado = "usado"
        hasAvailableOrAssigned ==
            \E i \in OrderBundles(rows, orderId) : rows[i].estado \in {"disponible", "asignado"}
    IN IF allUsed /\ hasAvailableOrAssigned THEN <<FALSE>> ELSE <<>>

\* the update checkAndUpdateOrderStatus issues for an order from the bundles
\* it has read: <<v>> for update({activo: v}), <<>> for none
orderStatusUpdate(rows, orderId) ==
    LET allUsed == \A i \in OrderBundles(rows, orderId) : rows[i].estado = "usado"
        hasAvailableOrAssigned ==
            \E i \in OrderBundles(rows, orderId) : rows[i].estado \in {"disponible", "asignado"}
    IN IF allUsed /\ ~hasAvailableOrAssigned THEN <<FALSE>> ELSE <<>>

\* applyBundleAction returns once checkAndUpdateOrderStatus is over.  Kept with
\* the outcome: the orders the call closed, and those among them whose
\* recomputation neither failed nor read a bundle that was not "usado"
ReturnApplied(c, locals) ==
    /\ call' = [call EXCEPT ![c] = [op |-> locals.op, pc |-> "returned", at |-> locals.pc,
                                    closed |-> locals.closed,
                                    owes |-> locals.closed \ locals.excused]]
    /\ result' = [result EXCEPT ![c] = "ok"]
    /\ UNCHANGED input

\* the loop over uniqueOrderIds moves to its next order, or the action returns
NextOrder(c, locals) ==
    IF Len(locals.pending) <= 1
    THEN ReturnApplied(c, locals)
    ELSE Goto(c, [locals EXCEPT !.pc = "k_order", !.pending = Tail(@)])

\* select orden_corte_id of the targeted bundles
CheckReadOrderIds(c) ==
    /\ call[c].op \in ActionInputs /\ call[c].pc = "k_ids"
    /\ LET ids == Ascending(call[c].bundleIds)
           uniqueOrderIds == Unique([i \in 1..Len(ids) |-> bultos[ids[i]].orden_corte_id])
       IN Goto(c, [call[c] EXCEPT !.pc = "k_order", !.pending = uniqueOrderIds])
    /\ UNCHANGED <<db, now, calls, failures>>

\* select id, estado of the bundles of the order at hand
CheckReadOrderBundles(c) ==
    /\ call[c].op \in ActionInputs /\ call[c].pc = "k_order"
    /\ LET orderId == Head(call[c].pending)
           update == orderStatusUpdate(bultos, orderId)
       IN IF OrderBundles(bultos, orderId) = {}
          THEN NextOrder(c, call[c])
          ELSE IF update # <<>>
          THEN Goto(c, [call[c] EXCEPT !.pc = "k_update", !.activo = update[1]])
          ELSE NextOrder(c, [call[c] EXCEPT !.excused =
                   @ \cup (IF \E i \in OrderBundles(bultos, orderId) : bultos[i].estado # "usado"
                           THEN {orderId} ELSE {})])
    /\ UNCHANGED <<db, now, calls, failures>>

\* update ordenes_corte set activo = false
CheckDeactivateOrder(c) ==
    /\ call[c].op \in ActionInputs /\ call[c].pc = "k_update"
    /\ ordenes' = [ordenes EXCEPT ![Head(call[c].pending)].activo = call[c].activo]
    /\ NextOrder(c, call[c])
    /\ UNCHANGED <<bultos, historial, ubicaciones, now, calls, failures>>

\* ----------------------------------------------------- persistence failures
ThrowingSteps ==
    {"loc_sel", "loc_ins", "c_order", "c_bultos", "c_hist",
     "s_fetch", "s_siblings", "s_update", "s_number", "s_insert", "s_hist",
     "a_validate", "a_update", "a_hist"}

\* a persistence call of createCutOrder, splitBundle or applyBundleAction
\* returns an error: the function throws
PersistenceFails(c) ==
    /\ call[c].pc \in ThrowingSteps
    /\ failures < MaxFailures
    /\ failures' = failures + 1
    /\ Return(c, "error")
    /\ UNCHANGED <<db, now, calls>>

\* the recomputation throwing on an error where the code logs it
RecomputeFails_Throws(c) ==
    /\ call[c].pc \in {"k_ids", "k_order", "k_update"}
    /\ failures < MaxFailures
    /\ failures' = failures + 1
    /\ Return(c, "error")
    /\ UNCHANGED <<db, now, calls>>

\* a persistence call of checkAndUpdateOrderStatus returns an error: it is
\* logged, and the recomputation returns or goes on with the next order
RecomputeFails(c) ==
    /\ call[c].pc \in {"k_ids", "k_order", "k_update"}
    /\ failures < MaxFailures
    /\ failures' = failures + 1
    /\ IF call[c].pc = "k_ids"
       THEN ReturnApplied(c, [call[c] EXCEPT !.excused = @ \cup call[c].closed])
       ELSE NextOrder(c, [call[c] EXCEPT !.excused = @ \cup {Head(call[c].pending)}])
    /\ UNCHANGED <<db, now, calls>>

\* the caller takes the outcome of its call and is free for another
Settle(c) ==
    /\ call[c].pc = "returned"
    /\ call' = [call EXCEPT ![c] = Idle]
    /\ result' = [result EXCEPT ![c] = "none"]
    /\ UNCHANGED <<db, now, calls, failures, input>>

\* ----------------------------------------------------------- specifications
Next ==
    \/ \E c \in Callers : CreateCall(c)
    \/ \E c \in Callers : LocationSelect(c)
    \/ \E c \in Callers : LocationInsert(c)
    \/ \E c \in Callers : CreateInsertOrder(c)
    \/ \E c \in Callers : CreateInsertBundles(c)
    \/ \E c \in Callers : CreateInsertHistory(c)
    \/ \E c \in Callers : SplitCall(c)
    \/ \E c \in Callers : SplitFetch(c)
    \/ \E c \in Callers : SplitSiblings(c)
    \/ \E c \in Callers : SplitUpdate(c)
    \/ \E c \in Callers : SplitNormalizeNumber(c)
    \/ \E c \in Callers : SplitInsert(c)
    \/ \E c \in Callers : SplitInsertHistory(c)
    \/ \E c \in Callers : ApplyCall(c)
    \/ \E c \in Callers : ApplyValidateUse(c)
    \/ \E c \in Callers : ApplyUpdate(c)
    \/ \E c \in Callers : ApplyInsertHistory(c)
    \/ \E c \in Callers : CheckReadOrderIds(c)
    \/ \E c \in Callers : CheckReadOrderBundles(c)
    \/ \E c \in Callers : CheckDeactivateOrder(c)
    \/ \E c \in Callers : PersistenceFails(c)
    \/ \E c \in Callers : RecomputeFails(c)
    \/ \E c \in Callers : Settle(c)

Spec == Init /\ [][Next]_vars

\* One caller at a time and a store that never fails: the calls run one after
\* another, each to its end.
NoCallInFlight == \A c \in Callers : call[c].pc \in {"idle", "returned"}

SeqNext ==
    \/ \E c \in Callers : NoCallInFlight /\ CreateCall(c)
    \/ \E c \in Callers : LocationSelect(c)
    \/ \E c \in Callers : LocationInsert(c)
    \/ \E c \in Callers : CreateInsertOrder(c)
    \/ \E c \in Callers : CreateInsertBundles(c)
    \/ \E c \in Callers : CreateInsertHistory(c)
    \/ \E c \in Callers : NoCallInFlight /\ SplitCall(c)
    \/ \E c \in Callers : SplitFetch(c)
    \/ \E c \in Callers : SplitSiblings(c)
    \/ \E c \in Callers : SplitUpdate(c)
    \/ \E c \in Callers : SplitNormalizeNumber(c)
    \/ \E c \in Callers : SplitInsert(c)
    \/ \E c \in Callers : SplitInsertHistory(c)
    \/ \E c \in Callers : NoCallInFlight /\ ApplyCall(c)
    \/ \E c \in Callers : ApplyValidateUse(c)
    \/ \E c \in Callers : ApplyUpdate(c)
    \/ \E c \in Callers : ApplyInsertHistory(c)
    \/ \E c \in Callers : CheckReadOrderIds(c)
    \/ \E c \in Callers : CheckReadOrderBundles(c)
    \/ \E c \in Callers : CheckDeactivateOrder(c)
    \/ \E c \in Callers : Settle(c)

SeqSpec == Init /\ [][SeqNext]_vars

\* The calls run one after another against a store that never fails, and the
\* first caller makes its applyBundleAction and splitBundle calls with
\* arguments fixed beforehand, so that a call's arguments stay in view
\* whatever becomes of the call.
TestedSheetInputs == {-1, 0, 1, 2}

ApplyArguments ==
    [op : ActionInputs, bundleIds : SUBSET (1..MaxNewBundles),
     destinationCode : DestinationInputs, orderNumber : OrderNumberInputs]

SplitArguments ==
    [op : {"split"}, bundleId : 1..MaxNewBundles, orderId : 0..MaxOrders,
     sheets : TestedSheetInputs,
     originalSSCC : OriginalSSCCInputs, originalLUID : OriginalLUIDInputs,
     newSSCC : NewSSCCInputs, newLUID : NewLUIDInputs]

CallInit ==
    /\ InitStore
    /\ \E a \in ApplyArguments \cup SplitArguments :
          input = [c \in Callers |-> IF c = "c1" THEN a ELSE NoInput]

\* applyBundleAction called with the caller's arguments
TestedApplyCall(c) ==
    /\ MayStart(c)
    /\ input[c].op \in ActionInputs
    /\ input[c].bundleIds \subseteq BundleIds
    /\ applyBundleActionStart(c, input[c].bundleIds, input[c].op,
                              input[c].destinationCode, input[c].orderNumber)
    /\ Counted
    /\ UNCHANGED <<db, now, failures>>

\* splitBundle called with the caller's arguments
TestedSplitCall(c) ==
    /\ MayStart(c)
    /\ RoomForBundles(1)
    /\ input[c].op = "split"
    /\ input[c].bundleId \in BundleIds
    /\ splitBundleStart(c, input[c].bundleId, input[c].orderId, input[c].sheets,
                        input[c].originalSSCC, input[c].originalLUID,
                        input[c].newSSCC, input[c].newLUID)
    /\ Counted
    /\ UNCHANGED <<db, now, failures>>

CallNext ==
    \/ \E c \in Callers : NoCallInFlight /\ CreateCall(c)
    \/ \E c \in Callers : LocationSelect(c)
    \/ \E c \in Callers : LocationInsert(c)
    \/ \E c \in Callers : CreateInsertOrder(c)
    \/ \E c \in Callers : CreateInsertBundles(c)
    \/ \E c \in Callers : CreateInsertHistory(c)
    \/ \E c \in Callers : NoCallInFlight /\ TestedSplitCall(c)
    \/ \E c \in Callers : SplitFetch(c)
    \/ \E c \in Callers : SplitSiblings(c)
    \/ \E c \in Callers : SplitUpdate(c)
    \/ \E c \in Callers : SplitNormalizeNumber(c)
    \/ \E c \in Callers : SplitInsert(c)
    \/ \E c \in Callers : SplitInsertHistory(c)
    \/ \E c \in Callers : NoCallInFlight /\ TestedApplyCall(c)
    \/ \E c \in Callers : ApplyValidateUse(c)
    \/ \E c \in Callers : ApplyUpdate(c)
    \/ \E c \in Callers : ApplyInsertHistory(c)
    \/ \E c \in Callers : CheckReadOrderIds(c)
    \/ \E c \in Callers : CheckReadOrderBundles(c)
    \/ \E c \in Callers : CheckDeactivateOrder(c)
    \/ \E c \in Callers : Settle(c)

CallSpec == CallInit /\ [][CallNext]_vars

\* The same calls against a store that may hold, from the start, an order
\* whose bundle was written without a number (numero_bulto is nullable; only
\* createCutOrder and splitBundle always write one).
UnnumberedStore ==
    /\ ordenes = <<[activo |-> TRUE, cantidad_bultos |-> 1]>>
    /\ bultos = <<[orden_corte_id |-> 1, numero_bulto |-> NULL, ubicacion_id |-> 0,
                   cantidad_laminas |-> 2, estado |-> DEFAULT_BUNDLE_STATUS,
                   SSCC |-> <<>>, LUID |-> <<>>, creado_en |-> 0]>>
    /\ historial = <<>>
    /\ ubicaciones = <<>>
    /\ now = 0
    /\ call = [c \in Callers |-> Idle]
    /\ result = [c \in Callers |-> "none"]
    /\ calls = 0
    /\ failures = 0

UnnumberedInit ==
    /\ InitStore \/ UnnumberedStore
    /\ \E a \in ApplyArguments \cup SplitArguments :
          input = [c \in Callers |-> IF c = "c1" THEN a ELSE NoInput]

UnnumberedSpec == UnnumberedInit /\ [][CallNext]_vars

\* Orders of many bundles and bundles of many sheets: the first caller creates
\* an order of as many equal bundles as its arguments say, and then splits one
\* sheet off the last of them, call after call.
VolumeArguments ==
    { [op |-> "split", bundles |-> n, bundleSheets |-> k,
       bundleId |-> n, orderId |-> 1, sheets |-> 1,
       originalSSCC |-> <<"S", "1">>, originalLUID |-> <<"L", "1">>,
       newSSCC |-> <<"S", "2">>, newLUID |-> <<"L", "2">>] :
      n \in {1, MaxVolume}, k \in {2, MaxVolume} }

VolumeInit ==
    /\ InitStore
    /\ \E a \in VolumeArguments :
          input = [c \in Callers |-> IF c = "c1" THEN a ELSE NoInput]

\* createCutOrder called once, with the bundles of the caller's arguments
VolumeCreateCall(c) ==
    /\ call[c].pc = "idle"
    /\ input[c].op = "split"
    /\ calls = 0
    /\ createCutOrderStart(c, "Activo", <<"c", "2">>,
                           [i \in 1..input[c].bundles |->
                               [currentLocation |-> <<>>, sheets |-> input[c].bundleSheets,
                                status |-> <<>>]])
    /\ calls' = calls + 1
    /\ UNCHANGED <<db, now, failures>>

\* splitBundle called with the caller's arguments, as often as the caller likes
VolumeSplitCall(c) ==
    /\ call[c].pc = "idle"
    /\ input[c].op = "split"
    /\ input[c].bundleId \in BundleIds
    /\ splitBundleStart(c, input[c].bundleId, input[c].orderId, input[c].sheets,
                        input[c].originalSSCC, input[c].originalLUID,
                        input[c].newSSCC, input[c].newLUID)
    /\ UNCHANGED <<db, now, calls, failures>>

VolumeNext ==
    \/ \E c \in Callers : VolumeCreateCall(c)
    \/ \E c \in Callers : LocationSelect(c)
    \/ \E c \in Callers : LocationInsert(c)
    \/ \E c \in Callers : CreateInsertOrder(c)
    \/ \E c \in Callers : CreateInsertBundles(c)
    \/ \E c \in Callers : CreateInsertHistory(c)
    \/ \E c \in Callers : VolumeSplitCall(c)
    \/ \E c \in Callers : SplitFetch(c)
    \/ \E c \in Callers : SplitSiblings(c)
    \/ \E c \in Callers : SplitUpdate(c)
    \/ \E c \in Callers : SplitNormalizeNumber(c)
    \/ \E c \in Callers : SplitInsert(c)
    \/ \E c \in Callers : SplitInsertHistory(c)
    \/ \E c \in Callers : Settle(c)

VolumeSpec == VolumeInit /\ [][VolumeNext]_vars

\* Splits that interleave: one caller creates an order of equal bundles, and
\* then both callers split bundles of it, each its own calls one after another
\* and the two callers' calls concurrently; no persistence call fails.
InterleavedArguments ==
    { [c \in Callers |->
          [op |-> "split", bundles |-> n, bundleSheets |-> k,
           bundleId |-> b[c], orderId |-> 1, sheets |-> 1,
           originalSSCC |-> <<"S", "1">>, originalLUID |-> <<"L", "1">>,
           newSSCC |-> <<"S", "2">>, newLUID |-> <<"L", "2">>]] :
      n \in 1..MaxNewBundles, k \in 2..MaxBundles, b \in [Callers -> 1..MaxNewBundles] }

InterleavedInit ==
    /\ InitStore
    /\ input \in {a \in InterleavedArguments : \A c \in Callers : a[c].bundleId <= a[c].bundles}

InterleavedSpec == InterleavedInit /\ [][VolumeNext]_vars

\* The number codec on its own: the first caller encodes a base and a variant
\* and decodes what it got, or decodes a stored value.
CodecArguments ==
    [op : {"encode"}, base : 1..MaxBase, variant : 1..MaxVariant]
    \cup [op : {"decode"}, value : {NULL} \cup 0..MaxStored]

CodecInit ==
    /\ InitStore
    /\ \E a \in CodecArguments :
          input = [c \in Callers |-> IF c = "c1" THEN a ELSE NoInput]

\* encodeBundleNumber(base, variant)
EncodeCall(c) ==
    /\ input[c].op = "encode"
    /\ call[c].pc = "idle"
    /\ call' = [call EXCEPT ![c] = [op |-> "encode", pc |-> "returned", at |-> "entry",
                                    returns |-> encodeBundleNumber(input[c].base,
                                                                   input[c].variant)]]
    /\ UNCHANGED <<db, now, result, calls, failures, input>>

\* decodeBundleNumber of what encodeBundleNumber returned
DecodeEncoded(c) ==
    /\ call[c].op = "encode" /\ call[c].pc = "returned"
    /\ call' = [call EXCEPT ![c] = [op |-> "decode", pc |-> "returned", at |-> "entry",
                                    returns |-> decodeBundleNumber(call[c].returns)]]
    /\ UNCHANGED <<db, now, result, calls, failures, input>>

\* decodeBundleNumber(value)
DecodeCall(c) ==
    /\ input[c].op = "decode"
    /\ call[c].pc = "idle"
    /\ call' = [call EXCEPT ![c] = [op |-> "decode", pc |-> "returned", at |-> "entry",
                                    returns |-> decodeBundleNumber(input[c].value)]]
    /\ UNCHANGED <<db, now, result, calls, failures, input>>

CodecNext ==
    \/ \E c \in Callers : EncodeCall(c)
    \/ \E c \in Callers : DecodeEncoded(c)
    \/ \E c \in Callers : DecodeCall(c)

CodecSpec == CodecInit /\ [][CodecNext]_vars

\* --------------------------------------------------------------- projection
\* String(n) for a natural number
Digits == <<"0", "1", "2", "3", "4", "5", "6", "7", "8", "9">>

RECURSIVE StringOf(_)
StringOf(n) ==
    IF n < 10 THEN <<Digits[n + 1]>>
    ELSE StringOf(n \div 10) \o <<Digits[(n % 10) + 1]>>

SIN_ORDEN == <<"S", "i", "n", " ", "o", "r", "d", "e", "n">>
BULTO_PREFIX == <<"B", "u", "l", "t", "o", " ", "#">>
BULTO_SIN_NUMERO ==
    <<"B", "u", "l", "t", "o", " ", "s", "i", "n", " ", "n", "u", "m", "e", "r", "o">>
NAME_SEPARATOR == <<" ", "-", " ">>

\* value ? new Date(value).getTime() : 0
getTime(value) == IF value = NULL THEN 0 ELSE value

\* Array.prototype.sort by ascending key: stable
StableSort(s, keys) ==
    LET n == Len(s)
        rank(i) == 1 + Cardinality({j \in 1..n : (keys[j] < keys[i])
                                                  \/ (keys[j] = keys[i] /\ j < i)})
    IN [p \in 1..n |-> s[CHOOSE i \in 1..n : rank(i) = p]]

Reverse(s) == [i \in 1..Len(s) |-> s[Len(s) + 1 - i]]

\* the history left as the store returned it
sortHistory_Unsorted(history) == history

\* the sort that puts entries of equal timestamp in reverse order
sortHistory_TiesReversed(history) ==
    LET reversed == Reverse(history)
    IN StableSort(reversed, [i \in 1..Len(reversed) |-> getTime(reversed[i].fecha_hora)])

\* history.sort(...) of normalizeHistory: the array it is given, reordered
sortHistory(history) ==
    StableSort(history, [i \in 1..Len(history) |-> getTime(history[i].fecha_hora)])

\* what normalizeHistory returns from the array it has sorted; an entry keeps
\* the action its label is looked up from and the timestamp its date renders
normalizeHistory(sorted) ==
    [i \in 1..Len(sorted) |->
        [action |-> sorted[i].accion,
         location |-> IF sorted[i].accion = "asignar"
                      THEN (IF sorted[i].numero_trabajo # <<>>
                            THEN sorted[i].numero_trabajo ELSE <<"-">>)
                      ELSE (IF sorted[i].ubicacion_destino # <<>>
                            THEN sorted[i].ubicacion_destino ELSE <<"-">>),
         date |-> sorted[i].fecha_hora]]

\* [...rawHistory].reverse().find(entry with a work-order number that is not
\* blank): the entry in a one-element sequence, or <<>> for undefined
lastWorkOrderEntry(rawHistory) ==
    LET reversed == Reverse(rawHistory)
        found == {i \in 1..Len(reversed) :
                     /\ reversed[i].numero_trabajo # <<>>
                     /\ Len(Trim(reversed[i].numero_trabajo)) > 0}
    IN IF found = {} THEN <<>>
       ELSE <<reversed[CHOOSE i \in found : \A j \in found : i <= j]>>

mapBundle(bundle) ==
    LET numberInfo == decodeBundleNumber(bundle.numero_bulto)
        baseNumber == numberInfo.base
        rawHistory == sortHistory(bundle.historial)
        history == normalizeHistory(rawHistory)
        last == lastWorkOrderEntry(rawHistory)
        latestWorkOrder == IF bundle.estado = "disponible" THEN SIN_ORDEN
                           ELSE IF last # <<>> THEN last[1].numero_trabajo
                           ELSE SIN_ORDEN
        baseName == IF baseNumber # NULL /\ baseNumber # 0
                    THEN BULTO_PREFIX \o StringOf(baseNumber)
                    ELSE BULTO_SIN_NUMERO
    IN [id |-> StringOf(bundle.id),
        name |-> baseName,
        baseName |-> baseName,
        rawNumber |-> baseNumber,
        createdAt |-> bundle.creado_en,
        workOrder |-> latestWorkOrder,
        history |-> history]

\* the names given by position in the list, the groups left unsorted
applyBundleDisplayNames_Unsorted(bundles) ==
    LET key(i) == IF bundles[i].rawNumber # NULL
                  THEN StringOf(bundles[i].rawNumber) ELSE bundles[i].id
        group(i) == SelectIdx([j \in 1..Len(bundles) |-> j],
                              [j \in 1..Len(bundles) |-> key(j) = key(i)], 1)
        position(i) == CHOOSE p \in 1..Len(group(i)) : group(i)[p] = i
    IN [i \in 1..Len(bundles) |->
           IF Len(group(i)) <= 1 THEN bundles[i]
           ELSE [bundles[i] EXCEPT !.name =
                    bundles[i].baseName \o NAME_SEPARATOR \o StringOf(position(i))]]

applyBundleDisplayNames(bundles) ==
    LET key(i) == IF bundles[i].rawNumber # NULL
                  THEN StringOf(bundles[i].rawNumber) ELSE bundles[i].id
        group(i) == SelectIdx([j \in 1..Len(bundles) |-> j],
                              [j \in 1..Len(bundles) |-> key(j) = key(i)], 1)
        sorted(i) == StableSort(group(i),
                                [p \in 1..Len(group(i)) |->
                                    getTime(bundles[group(i)[p]].createdAt)])
        position(i) == CHOOSE p \in 1..Len(sorted(i)) : sorted(i)[p] = i
    IN [i \in 1..Len(bundles) |->
           IF Len(group(i)) <= 1 THEN bundles[i]
           ELSE [bundles[i] EXCEPT !.name =
                    bundles[i].baseName \o NAME_SEPARATOR \o StringOf(position(i))]]

\* the bundles of mapCutOrder
mapCutOrder(order) ==
    [bundles |-> applyBundleDisplayNames([i \in 1..Len(order.bultos) |->
                                             mapBundle(order.bultos[i])])]

\* The projection on its own: the first caller projects a bundle, or an order
\* with its bundles, as the store returned them.
WorkOrderInputs == {<<"A">>, <<"B">>}

HistoryEntryInputs ==
    [accion : {"mover"}, numero_trabajo : {<<>>}, ubicacion_destino : {<<"C", "1">>},
     fecha_hora : 1..MaxTime]
    \cup [accion : {"asignar"}, numero_trabajo : WorkOrderInputs, ubicacion_destino : {<<>>},
          fecha_hora : 1..MaxTime]

HistoryInputs == UNION {[1..n -> HistoryEntryInputs] : n \in 0..MaxHistory}

StoredNumberInputs == {2, 1001, 1002, 1003}

ListedBundleInputs ==
    [numero_bulto : StoredNumberInputs, estado : {DEFAULT_BUNDLE_STATUS},
     creado_en : 1..MaxTime, historial : {<<>>}]

WithIds(rows) == [i \in 1..Len(rows) |->
                    [id |-> i, numero_bulto |-> rows[i].numero_bulto,
                     estado |-> rows[i].estado, creado_en |-> rows[i].creado_en,
                     historial |-> rows[i].historial]]

ProjectionArguments ==
    [op : {"mapBundle"},
     bundle : [id : {1}, numero_bulto : {1}, estado : BundleStatusEnum, creado_en : {1},
               historial : HistoryInputs]]
    \cup [op : {"mapCutOrder"},
          order : [bultos : {WithIds(rows) :
                               rows \in UNION {[1..n -> ListedBundleInputs] :
                                                  n \in 0..MaxBundles}}]]

ProjectionInit ==
    /\ InitStore
    /\ \E a \in ProjectionArguments :
          input = [c \in Callers |-> IF c = "c1" THEN a ELSE NoInput]

MapBundleCall(c) ==
    /\ input[c].op = "mapBundle"
    /\ call[c].pc = "idle"
    /\ call' = [call EXCEPT ![c] = [op |-> "mapBundle", pc |-> "returned", at |-> "entry",
                                    returns |-> mapBundle(input[c].bundle)]]
    /\ UNCHANGED <<db, now, result, calls, failures, input>>

MapCutOrderCall(c) ==
    /\ input[c].op = "mapCutOrder"
    /\ call[c].pc = "idle"
    /\ call' = [call EXCEPT ![c] = [op |-> "mapCutOrder", pc |-> "returned", at |-> "entry",
                                    returns |-> mapCutOrder(input[c].order)]]
    /\ UNCHANGED <<db, now, result, calls, failures, input>>

ProjectionNext ==
    \/ \E c \in Callers : MapBundleCall(c)
    \/ \E c \in Callers : MapCutOrderCall(c)

ProjectionSpec == ProjectionInit /\ [][ProjectionNext]_vars

\* ------------------------------------------------------------------- claims
Orders == 1..Len(ordenes)
Decoded(i) == decodeBundleNumber(bultos[i].numero_bulto)
IsOpen(row) == row.estado \in {"disponible", "asignado"}

\* caller c's call settles in this step, with the given outcome
Returns(c, how) ==
    /\ call[c].pc \notin {"idle", "returned"}
    /\ call'[c].pc = "returned"
    /\ result'[c] = how

\* C1: a splitBundle call that fails never leaves the split half applied: when
\* it throws, the original is reduced by k if and only if the sibling holding
\* k sheets exists.
C1_SplitNeverPartial ==
    [][\A c \in Callers :
          (/\ call[c].op = "split"
           /\ call[c].pc \in {"s_siblings", "s_update", "s_number", "s_insert", "s_hist"}
           /\ Returns(c, "error"))
          => LET L == call[c]
                 reduced == bultos'[L.bundleId].cantidad_laminas
                               = L.bundle.cantidad_laminas - L.sheets
                 sibling == \E i \in 1..Len(bultos') :
                               /\ i # L.bundleId
                               /\ bultos'[i].orden_corte_id = L.orderId
                               /\ decodeBundleNumber(bultos'[i].numero_bulto).base
                                     = L.bundleBaseNumber
                               /\ bultos'[i].cantidad_laminas = L.sheets
                               /\ bultos'[i].SSCC = L.normalizedSplitSSCC
             IN reduced <=> sibling]_vars

\* C2: no two bundles of one order ever decode to the same (base, variant),
\* whatever the interleaving of the splitBundle calls on their group.
C2_NoDuplicateVariant ==
    \A i, j \in BundleIds :
        (i # j /\ bultos[i].orden_corte_id = bultos[j].orden_corte_id)
        => Decoded(i) # Decoded(j)

\* C3 for an order created with one bundle, where every split is a split of
\* the one group: after n successful splitBundle calls made one after another
\* the group of base 1 has n+1 bundles and their variants are exactly 1..n+1.
C3_VariantsAtVolume ==
    (/\ NoCallInFlight
     /\ Len(ordenes) = 1 /\ ordenes[1].cantidad_bultos = 1
     /\ Len(bultos) >= 1)
    => LET n == Cardinality({h \in 1..Len(historial) : historial[h].accion = "dividir"}) \div 2
           g == relatedBundles(bultos, 1, 1)
       IN /\ Cardinality(g) = n + 1
          /\ {Decoded(i).variant : i \in g} = 1..(n + 1)

\* C4: when splitBundle(bundle, k) succeeds on a bundle of S sheets, 0 < k < S,
\* the original holds S - k sheets and the new bundle k, S in all, and both
\* decode to the same base.
C4_SplitConservation ==
    [][\A c \in Callers :
          (call[c].op = "split" /\ Returns(c, "ok"))
          => LET L == call[c]
                 S == L.bundle.cantidad_laminas
                 original == bultos'[L.bundleId]
                 new == bultos'[L.newBundleId]
             IN /\ 0 < L.sheets /\ L.sheets < S
                /\ original.cantidad_laminas = S - L.sheets
                /\ new.cantidad_laminas = L.sheets
                /\ original.cantidad_laminas + new.cantidad_laminas = S
                /\ decodeBundleNumber(original.numero_bulto).base
                      = decodeBundleNumber(new.numero_bulto).base]_vars

\* C5: a "utilizar" call goes through if and only if every targeted bundle
\* is "asignado" as the call acts on it, at its check and at its update alike:
\* with a targeted bundle that is not, the whole batch fails, no bundle
\* changes and no history entry is appended.
C5_UseAtomic ==
    [][\A c \in Callers :
          (/\ call[c].op = "utilizar" /\ call[c].pc \in {"a_validate", "a_update"}
           /\ call'[c] # call[c])
          => IF \A i \in call[c].bundleIds : bultos[i].estado = "asignado"
             THEN \/ /\ call'[c].pc \in {"a_update", "a_hist"}
                     /\ call'[c].bundleIds = call[c].bundleIds
                  \/ Returns(c, "error") /\ failures' = failures + 1
             ELSE /\ Returns(c, "error")
                  /\ bultos' = bultos
                  /\ historial' = historial
                  /\ ordenes' = ordenes]_vars

\* C6: "usado" is terminal: no step takes a bundle out of it.
C6_UsedIsTerminal ==
    [][\A i \in BundleIds : bultos[i].estado = "usado" => bultos'[i].estado = "usado"]_vars

\* C7 as claimed: every bundle that is "usado" was "asignado" just before it
\* became "usado", bundles new in the step included.
C7_UsedOnlyFromAssigned ==
    [][\A i \in 1..Len(bultos') :
          (bultos'[i].estado = "usado" /\ (i > Len(bultos) \/ bultos[i].estado # "usado"))
          => (i <= Len(bultos) /\ bultos[i].estado = "asignado")]_vars

\* C7 amended: a bundle that exists becomes "usado" only from "asignado"; a
\* bundle is born "usado" only in createCutOrder, from the status its input
\* names, or in splitBundle, as the copy of the status read for the original.
C7_UsedFromAssignedOrBorn ==
    [][/\ \A i \in BundleIds :
             (bultos'[i].estado = "usado" /\ bultos[i].estado # "usado")
             => bultos[i].estado = "asignado"
       /\ \A i \in (Len(bultos) + 1)..Len(bultos') :
             bultos'[i].estado = "usado"
             => \E c \in Callers :
                   \/ /\ call[c].op = "create" /\ call[c].pc = "c_bultos"
                      /\ \E k \in 1..Len(call[c].bundles) :
                            bundleStatusFromInput(call[c].bundles[k].status) = "usado"
                   \/ /\ call[c].op = "split" /\ call[c].pc = "s_insert"
                      /\ call[c].bundle.estado = "usado"]_vars

C7_Witness ==
    \E i \in BundleIds :
        /\ bultos[i].estado = "usado"
        /\ \E h, g \in 1..Len(historial) :
              /\ h < g
              /\ historial[h].bulto_id = i /\ historial[h].accion = "asignar"
              /\ historial[g].bulto_id = i /\ historial[g].accion = "utilizar"

\* C8: when an applyBundleAction call has completed, each order that owns a
\* targeted bundle is inactive exactly when none of its bundles is
\* "disponible" or "asignado".
C8_ActiveIffOpenBundle ==
    [][\A c \in Callers :
          (call[c].op \in ActionInputs /\ Returns(c, "ok"))
          => \A i \in call[c].bundleIds :
                LET o == bultos'[i].orden_corte_id
                IN ordenes'[o].activo = FALSE
                   <=> ~\E j \in OrderBundles(bultos', o) : IsOpen(bultos'[j])]_vars

\* C9: an order that is inactive stays inactive.
C9_NeverReactivated ==
    [][\A o \in Orders : ordenes[o].activo = FALSE => ordenes'[o].activo = FALSE]_vars

C9_Witness ==
    \E o \in Orders :
        /\ ordenes[o].activo = FALSE
        /\ \E i \in OrderBundles(bultos, o) :
              /\ IsOpen(bultos[i])
              /\ \E h \in 1..Len(historial) :
                    historial[h].bulto_id = i /\ historial[h].accion = "asignar"
        /\ \E c \in Callers : call[c].op \in ActionInputs /\ call[c].pc = "returned"
                              /\ result[c] = "ok"

C11_RecomputeFailureSwallowed ==
    [][\A c \in Callers :
          (/\ call[c].op \in ActionInputs
           /\ call[c].pc \in {"k_ids", "k_order", "k_update"}
           /\ call'[c] # call[c])
          => /\ call'[c].pc \in {"k_order", "k_update", "returned"}
             /\ call'[c].pc = "returned" => result'[c] = "ok"
             /\ failures' # failures =>
                   /\ bultos' = bultos /\ historial' = historial /\ ordenes' = ordenes
                   /\ \A i \in call[c].bundleIds :
                         \E h \in 1..Len(historial') :
                            /\ historial'[h].bulto_id = i
                            /\ historial'[h].accion = call[c].action]_vars

C11_Witness ==
    \E c \in Callers :
        /\ call[c].op = "asignar" /\ call[c].pc = "returned" /\ result[c] = "ok"
        /\ call[c].at = "k_ids" /\ failures = 1
        /\ \E i \in BundleIds, h \in 1..Len(historial) :
              /\ bultos[i].estado = "asignado"
              /\ historial[h].bulto_id = i /\ historial[h].accion = "asignar"

\* C12: an applyBundleAction call that fails leaves nothing half done: when
\* it throws, the update of the targeted bundles has not been applied without
\* the history entries of the action (the call is not past its update and
\* short of its history insert).
C12_ActionNeverPartial ==
    [][\A c \in Callers :
          (call[c].op \in ActionInputs /\ Returns(c, "error"))
          => ~(/\ call[c].pc = "a_hist"
               /\ \A i \in call[c].bundleIds :
                     /\ bundleStatusByAction(call[c].action) # ""
                           => bultos'[i].estado = bundleStatusByAction(call[c].action)
                     /\ call[c].locationId # 0
                           => bultos'[i].ubicacion_id = call[c].locationId
               /\ historial' = historial)]_vars

\* C13: applyBundleAction called with an empty list of bundle ids fails at
\* once, whatever the action: no bundle is updated, no history entry is
\* appended, no location is created and no order is changed.
C13_EmptyListRejected ==
    [][\A c \in Callers :
          (/\ call[c].pc = "idle"
           /\ call'[c].op \in ActionInputs
           /\ input[c].op \in ActionInputs
           /\ input[c].bundleIds = {})
          => /\ call'[c].pc = "returned"
             /\ call'[c].at = "entry"
             /\ result'[c] = "error"
             /\ bultos' = bultos /\ historial' = historial
             /\ ubicaciones' = ubicaciones /\ ordenes' = ordenes]_vars

C13_Witness ==
    \E c \in Callers :
        /\ input[c].op = "mover" /\ input[c].bundleIds = {}
        /\ input[c].destinationCode = <<"c", "2", " ">>
        /\ call[c].op = "mover" /\ call[c].pc = "returned" /\ call[c].at = "entry"
        /\ result[c] = "error"
        /\ bultos # <<>>
        /\ \A u \in 1..Len(ubicaciones) : ubicaciones[u] # <<"C", "2">>

\* C14: applyBundleAction with action "asignar" fails when the work-order
\* number is missing or blank once trimmed, and then no bundle's status
\* changes and no history entry is appended; when it succeeds every targeted
\* bundle has status "asignado" and the history entry the call appended for it
\* carries the trimmed work-order number.
C14_AssignNeedsWorkOrder ==
    [][\A c \in Callers :
          input[c].op = "asignar" =>
             /\ (/\ call[c].pc = "idle" /\ call'[c].op = "asignar"
                 /\ Trim(input[c].orderNumber) = <<>>)
                => /\ call'[c].pc = "returned" /\ result'[c] = "error"
                   /\ bultos' = bultos /\ historial' = historial
             /\ (call[c].op = "asignar" /\ call[c].pc = "a_update" /\ call'[c] # call[c])
                => \A i \in input[c].bundleIds : bultos'[i].estado = "asignado"
             /\ (call[c].op = "asignar" /\ call[c].pc = "a_hist" /\ call'[c] # call[c])
                => /\ Len(historial') = Len(historial) + Cardinality(input[c].bundleIds)
                   /\ SubSeq(historial', 1, Len(historial)) = historial
                   /\ \A i \in input[c].bundleIds :
                         \E h \in (Len(historial) + 1)..Len(historial') :
                            /\ historial'[h].bulto_id = i
                            /\ historial'[h].accion = "asignar"
                            /\ historial'[h].numero_trabajo = Trim(input[c].orderNumber)
                            /\ historial'[h].numero_trabajo # <<>>
             /\ (call[c].op = "asignar" /\ Returns(c, "ok"))
                => /\ input[c].bundleIds # {}
                   /\ \A i \in input[c].bundleIds : bultos'[i].estado = "asignado"]_vars

C14_Witness ==
    \E c \in Callers :
        /\ input[c].op = "asignar" /\ input[c].orderNumber = <<" ">>
        /\ input[c].bundleIds # {}
        /\ call[c].op = "asignar" /\ call[c].pc = "returned" /\ result[c] = "error"
        /\ \A i \in input[c].bundleIds : bultos[i].estado = "disponible"

\* the bundle a splitBundle call names, as the store holds it
SplitTarget(c) == bultos[input[c].bundleId]

\* the conditions under which splitBundle must refuse
SplitRefused(c) ==
    \/ input[c].sheets <= 0
    \/ input[c].sheets >= SplitTarget(c).cantidad_laminas
    \/ Trim(input[c].originalSSCC) = <<>> \/ Trim(input[c].originalLUID) = <<>>
    \/ Trim(input[c].newSSCC) = <<>> \/ Trim(input[c].newLUID) = <<>>
    \/ SplitTarget(c).orden_corte_id # input[c].orderId
    \/ SplitTarget(c).numero_bulto = NULL

\* C15: splitBundle fails, and changes no bundle, no history entry and no
\* order, when k <= 0, when k >= the sheets of the bundle, when one of the four
\* identifiers is empty once trimmed, when the bundle is not of the given order
\* or when the bundle has no number (null).
C15_SplitRefusedWithoutMutation ==
    [][\A c \in Callers :
          (/\ input[c].op = "split"
           /\ call[c].pc \in {"idle", "s_fetch"}
           /\ call'[c].op = "split"
           /\ call'[c] # call[c]
           /\ SplitRefused(c))
          => /\ call'[c].pc \in {"s_fetch", "returned"}
             /\ call[c].pc = "s_fetch" => call'[c].pc = "returned"
             /\ call'[c].pc = "returned" => result'[c] = "error"
             /\ bultos' = bultos /\ historial' = historial /\ ordenes' = ordenes]_vars

C15_Witness ==
    \E c \in Callers :
        /\ input[c].op = "split" /\ input[c].sheets = 1
        /\ input[c].bundleId \in BundleIds
        /\ Trim(input[c].originalSSCC) # <<>> /\ Trim(input[c].originalLUID) # <<>>
        /\ Trim(input[c].newSSCC) # <<>> /\ Trim(input[c].newLUID) # <<>>
        /\ SplitTarget(c).orden_corte_id = input[c].orderId
        /\ SplitTarget(c).cantidad_laminas = 2
        /\ SplitTarget(c).numero_bulto = NULL
        /\ call[c].op = "split" /\ call[c].pc = "returned" /\ call[c].at = "s_fetch"
        /\ result[c] = "error"

\* C16: for every base in 1..998 and every variant in 1..998, decoding the
\* encoding of (base, variant) gives back exactly (base, variant).
C16_CodecRoundTrip ==
    \A c \in Callers :
        (input[c].op = "encode" /\ call[c].op = "decode")
        => call[c].returns = [base |-> input[c].base, variant |-> input[c].variant]

C16_Witness ==
    \E c \in Callers :
        /\ input[c].op = "encode" /\ input[c].base = 998 /\ input[c].variant = 998
        /\ call[c].op = "decode"
        /\ call[c].returns = [base |-> 998, variant |-> 998]

\* C17: decodeBundleNumber gives (null, null) for null, (v, 1) for a stored
\* v < 1000, and for v >= 1000 the base floor(v / 1000) with the variant
\* v mod 1000, a remainder of 0 giving variant 1.
C17_DecodeMatchesReference ==
    \A c \in Callers :
        (input[c].op = "decode" /\ call[c].op = "decode")
        => LET v == input[c].value
               r == call[c].returns
           IN IF v = NULL
              THEN r.base = NULL /\ r.variant = NULL
              ELSE IF v < 1000
              THEN r.base = v /\ r.variant = 1
              ELSE /\ r.base * 1000 <= v /\ v < (r.base + 1) * 1000
                   /\ r.variant = (IF v - r.base * 1000 = 0 THEN 1 ELSE v - r.base * 1000)

C17_Witness ==
    \E c \in Callers :
        /\ input[c].op = "decode" /\ input[c].value = 2000
        /\ call[c].op = "decode"
        /\ call[c].returns = [base |-> 2, variant |-> 1]

\* the entries of a history that bear a work-order number
Bearing(history) == {i \in 1..Len(history) : history[i].numero_trabajo # <<>>}

\* C18: the projected work order of a bundle is the work-order number of the
\* latest, by timestamp, of its history entries that bear one, and none when
\* the bundle is available or no entry bears one.
C18_LatestWorkOrder ==
    \A c \in Callers :
        (input[c].op = "mapBundle" /\ call[c].op = "mapBundle")
        => LET history == input[c].bundle.historial
               workOrder == call[c].returns.workOrder
           IN IF input[c].bundle.estado = "disponible" \/ Bearing(history) = {}
              THEN workOrder = SIN_ORDEN
              ELSE \E i \in Bearing(history) :
                      /\ workOrder = history[i].numero_trabajo
                      /\ \A j \in Bearing(history) :
                            history[j].fecha_hora <= history[i].fecha_hora

C18_Witness ==
    \E c \in Callers :
        /\ input[c].op = "mapBundle" /\ call[c].op = "mapBundle"
        /\ input[c].bundle.estado = "asignado"
        /\ Len(input[c].bundle.historial) = 2
        /\ input[c].bundle.historial[1].accion = "mover"
        /\ input[c].bundle.historial[1].fecha_hora = 2
        /\ input[c].bundle.historial[2].accion = "asignar"
        /\ input[c].bundle.historial[2].numero_trabajo = <<"A">>
        /\ input[c].bundle.historial[2].fecha_hora = 1
        /\ call[c].returns.workOrder = <<"A">>

\* the bundles of the projected order that decode to the base of bundle i
SiblingGroup(rows, i) ==
    {j \in 1..Len(rows) : decodeBundleNumber(rows[j].numero_bulto).base
                             = decodeBundleNumber(rows[i].numero_bulto).base}

\* C19: in the projection of an order, a bundle of a sibling group of more
\* than one member is named by its base name followed by its position, from 1,
\* in the group sorted by createdAt ascending; a bundle alone in its group
\* keeps the bare base name.
C19_DisplayNames ==
    \A c \in Callers :
        (input[c].op = "mapCutOrder" /\ call[c].op = "mapCutOrder")
        => LET rows == input[c].order.bultos
               shown == call[c].returns.bundles
               bare(i) == BULTO_PREFIX \o StringOf(decodeBundleNumber(rows[i].numero_bulto).base)
           IN /\ Len(shown) = Len(rows)
              /\ \A i \in 1..Len(rows) :
                    LET G == SiblingGroup(rows, i)
                        before == {j \in G : rows[j].creado_en < rows[i].creado_en}
                        upTo == {j \in G : rows[j].creado_en <= rows[i].creado_en}
                    IN IF Cardinality(G) = 1
                       THEN shown[i].name = bare(i)
                       ELSE /\ \E p \in (Cardinality(before) + 1)..Cardinality(upTo) :
                                  shown[i].name = bare(i) \o <<" ", "-", " ">> \o StringOf(p)
                            /\ \A j \in G \ {i} : shown[j].name # shown[i].name

C19_Witness ==
    \E c \in Callers :
        /\ input[c].op = "mapCutOrder" /\ call[c].op = "mapCutOrder"
        /\ Len(input[c].order.bultos) = 3
        /\ input[c].order.bultos[1].numero_bulto = 1002
        /\ input[c].order.bultos[1].creado_en = 2
        /\ input[c].order.bultos[2].numero_bulto = 2
        /\ input[c].order.bultos[3].numero_bulto = 1001
        /\ input[c].order.bultos[3].creado_en = 1
        /\ call[c].returns.bundles[1].name = <<"B", "u", "l", "t", "o", " ", "#", "1", " ", "-", " ", "2">>
        /\ call[c].returns.bundles[2].name = <<"B", "u", "l", "t", "o", " ", "#", "2">>
        /\ call[c].returns.bundles[3].name = <<"B", "u", "l", "t", "o", " ", "#", "1", " ", "-", " ", "1">>

\* C20: a move that succeeds sets the location of every targeted bundle to
\* the destination, and no step of a move changes the status, the sheets, the
\* number or the identifiers of any bundle.
C20_MoveOnlyRelocates ==
    [][\A c \in Callers :
          (call[c].op = "mover" /\ call'[c] # call[c])
          => /\ Len(bultos') = Len(bultos)
             /\ \A i \in BundleIds :
                   /\ bultos'[i].estado = bultos[i].estado
                   /\ bultos'[i].cantidad_laminas = bultos[i].cantidad_laminas
                   /\ bultos'[i].numero_bulto = bultos[i].numero_bulto
                   /\ bultos'[i].SSCC = bultos[i].SSCC
                   /\ bultos'[i].LUID = bultos[i].LUID
             /\ (call[c].pc = "a_update" /\ call'[c].pc = "a_hist")
                => \A i \in call[c].bundleIds :
                      /\ bultos'[i].ubicacion_id \in 1..Len(ubicaciones)
                      /\ ubicaciones[bultos'[i].ubicacion_id] = call[c].destination
             /\ (call'[c].pc = "returned" /\ result'[c] = "ok")
                => call[c].pc \in {"k_ids", "k_order", "k_update"}]_vars

C20_Witness ==
    \E c \in Callers :
        /\ call[c].op = "mover" /\ call[c].pc = "k_ids"
        /\ call[c].destination = <<"C", "2">>
        /\ \E i \in call[c].bundleIds, h \in 1..Len(historial) :
              /\ bultos[i].ubicacion_id # 0
              /\ ubicaciones[bultos[i].ubicacion_id] = <<"C", "2">>
              /\ bultos[i].estado = "asignado"
              /\ historial[h].bulto_id = i /\ historial[h].accion = "mover"
              /\ historial[h].ubicacion_destino_id # bultos[i].ubicacion_id

\* C21: the history ledger is append-only: every step keeps each entry that
\* exists, with the same bundle, action, destination, work-order number and
\* timestamp, and can only add entries after them.
C21_LedgerAppendOnly ==
    [][/\ Len(historial') >= Len(historial)
       /\ \A h \in 1..Len(historial) :
             /\ historial'[h].bulto_id = historial[h].bulto_id
             /\ historial'[h].accion = historial[h].accion
             /\ historial'[h].ubicacion_destino_id = historial[h].ubicacion_destino_id
             /\ historial'[h].numero_trabajo = historial[h].numero_trabajo
             /\ historial'[h].fecha_hora = historial[h].fecha_hora]_vars

C21_Witness ==
    /\ Len(historial) >= 4
    /\ historial[1].accion = "mover"
    /\ \E h \in 2..Len(historial) : historial[h].accion = "dividir"
    /\ \E h \in 2..Len(historial) :
          historial[h].accion = "asignar" /\ historial[h].bulto_id = historial[1].bulto_id

\* the entries of a ledger that are about bundle i
EntriesOf(ledger, i) == {h \in 1..Len(ledger) : ledger[h].bulto_id = i}

\* C22: a splitBundle that succeeds appends exactly two entries with action
\* "dividir", one for the original bundle and one for the new one, with the
\* same timestamp and the same location; when nothing else was recorded about
\* them, the original, which had its one initial entry, then has two entries
\* and the new bundle has one.
C22_SplitAppendsTwoEntries ==
    [][\A c \in Callers :
          (call[c].op = "split" /\ Returns(c, "ok"))
          => LET n == Len(historial)
                 new == call[c].newBundleId
             IN /\ Len(historial') = n + 2
                /\ SubSeq(historial', 1, n) = historial
                /\ historial'[n + 1].accion = "dividir"
                /\ historial'[n + 2].accion = "dividir"
                /\ {historial'[n + 1].bulto_id, historial'[n + 2].bulto_id}
                      = {call[c].bundleId, new}
                /\ new # call[c].bundleId
                /\ new \in BundleIds
                /\ historial'[n + 1].fecha_hora = historial'[n + 2].fecha_hora
                /\ historial'[n + 1].ubicacion_destino_id = historial'[n + 2].ubicacion_destino_id
                /\ (/\ Cardinality(EntriesOf(historial, call[c].bundleId)) = 1
                    /\ EntriesOf(historial, new) = {})
                      => /\ Cardinality(EntriesOf(historial', call[c].bundleId)) = 2
                         /\ Cardinality(EntriesOf(historial', new)) = 1]_vars

C22_Witness ==
    /\ calls = 2 /\ failures = 0
    /\ \E c \in Callers :
          /\ call[c].op = "split" /\ call[c].pc = "returned" /\ result[c] = "ok"
    /\ Len(bultos) = 2 /\ Len(historial) = 3
    /\ historial[1].bulto_id = 1 /\ historial[1].accion = "mover"
    /\ historial[2].bulto_id = 1 /\ historial[2].accion = "dividir"
    /\ historial[3].bulto_id = 2 /\ historial[3].accion = "dividir"
    /\ historial[2].fecha_hora = historial[3].fecha_hora
    /\ historial[2].ubicacion_destino_id = historial[3].ubicacion_destino_id
    /\ historial[2].ubicacion_destino_id # 0

\* C23: a splitBundle that succeeds on a bundle whose stored number is below
\* 1000 leaves the original numbered encode(base, 1); no step of a split
\* changes a number that is 1000 or more; and when a split has succeeded every
\* bundle of the group has a number of 1000 or more.
C23_OriginalPromoted ==
    [][\A c \in Callers :
          (/\ call[c].op = "split" /\ call'[c] # call[c]
           /\ call[c].pc \notin {"idle", "s_fetch", "returned"})
          => LET o == call[c].bundleId
                 read == call[c].bundle.numero_bulto
             IN /\ bultos[o].numero_bulto >= 1000
                      => bultos'[o].numero_bulto = bultos[o].numero_bulto
                /\ Returns(c, "ok")
                      => /\ read < 1000 => bultos'[o].numero_bulto = read * 1000 + 1
                         /\ read >= 1000 => bultos'[o].numero_bulto = read
                         /\ \A j \in 1..Len(bultos') :
                               (/\ bultos'[j].orden_corte_id = bultos'[o].orden_corte_id
                                /\ decodeBundleNumber(bultos'[j].numero_bulto).base
                                      = decodeBundleNumber(bultos'[o].numero_bulto).base)
                               => bultos'[j].numero_bulto >= 1000]_vars

\* C24: the bundle that splitBundle inserts has the requested sheets, the number
\* encode(base, nextVariant), the new identifiers of the call, the order of the
\* original, and the location and status the original has when the insert is
\* made, whatever other calls run meanwhile.
C24_NewBundleCopiesOriginal ==
    [][\A c \in Callers :
          (/\ call[c].op = "split" /\ call[c].pc = "s_insert"
           /\ call'[c].pc = "s_hist")
          => LET o == call[c].bundleId
                 new == bultos'[call'[c].newBundleId]
             IN /\ Len(bultos') = Len(bultos) + 1
                /\ call'[c].newBundleId = Len(bultos')
                /\ new.cantidad_laminas = call[c].sheets
                /\ new.numero_bulto
                      = encodeBundleNumber(call[c].bundleBaseNumber, call[c].nextVariant)
                /\ new.SSCC = call[c].normalizedSplitSSCC
                /\ new.LUID = call[c].normalizedSplitLUID
                /\ new.orden_corte_id = bultos[o].orden_corte_id
                /\ new.ubicacion_id = bultos[o].ubicacion_id
                /\ new.estado = bultos[o].estado]_vars

C26_NewNumberDecodes ==
    [][\A c \in Callers :
          (/\ call[c].op = "split" /\ call[c].pc = "s_insert"
           /\ call'[c].pc = "s_hist")
          => LET written == bultos'[call'[c].newBundleId].numero_bulto
             IN /\ written = encodeBundleNumber(call[c].bundleBaseNumber, call[c].nextVariant)
                /\ call[c].nextVariant \in 1..999
                /\ decodeBundleNumber(written).base = call[c].bundleBaseNumber
                /\ decodeBundleNumber(written).variant = call[c].nextVariant]_vars

\* C27: bundles of one order that decode to the same base are split siblings;
\* in particular the bundles that one createCutOrder inserts, numbered 1..N,
\* decode to pairwise different bases, whatever N is.
C27_InitialBasesDistinct ==
    [][\A c \in Callers :
          (/\ call[c].op = "create" /\ call[c].pc = "c_bultos"
           /\ call'[c].pc = "c_hist")
          => \A i, j \in (Len(bultos) + 1)..Len(bultos') :
                (/\ i # j
                 /\ bultos'[i].orden_corte_id = bultos'[j].orden_corte_id)
                => decodeBundleNumber(bultos'[i].numero_bulto).base
                      # decodeBundleNumber(bultos'[j].numero_bulto).base]_vars

\* C28: when a createCutOrder call returns or throws, the order it inserted (if
\* any) has all the bundles of the input, and each of them has a number below
\* 1000 that decodes to variant 1 and exactly one history entry, a "mover"
\* whose destination is the location of the bundle.
C28_OrderWithItsBundles ==
    [][\A c \in Callers :
          (/\ call[c].op = "create"
           /\ call[c].pc \notin {"idle", "returned"}
           /\ call'[c].pc = "returned")
          => LET o == IF call[c].pc = "c_order"
                      THEN (IF Len(ordenes') > Len(ordenes) THEN Len(ordenes') ELSE 0)
                      ELSE call[c].orderId
                 mine == OrderBundles(bultos', o)
             IN o # 0
                => /\ Cardinality(mine) = Len(call[c].bundles)
                   /\ \A i \in mine :
                         /\ bultos'[i].numero_bulto < BUNDLE_SPLIT_NUMBER_FACTOR
                         /\ decodeBundleNumber(bultos'[i].numero_bulto).variant = 1
                         /\ Cardinality(EntriesOf(historial', i)) = 1
                         /\ \A h \in EntriesOf(historial', i) :
                               /\ historial'[h].accion = "mover"
                               /\ historial'[h].ubicacion_destino_id
                                     = bultos'[i].ubicacion_id]_vars

C30_OneLocationPerCode ==
    \A u, v \in 1..Len(ubicaciones) : ubicaciones[u] = ubicaciones[v] => u = v

\* the ways of listing the indices 1..n once each
Orderings(n) == {f \in [1..n -> 1..n] : \A p, q \in 1..n : f[p] = f[q] => p = q}

OrderSheets(rows, orderId) ==
    SumOver(OrderBundles(rows, orderId), [i \in 1..Len(rows) |-> rows[i].cantidad_laminas])

\* C32: when splitBundle calls on the bundles of an order have interleaved in
\* any way, with nothing else changing sheets, and all have finished, the
\* sheets of the order add up to what they were when the order was created.
C32_InterleavedSplitsConserve ==
    (/\ NoCallInFlight
     /\ Len(ordenes) = 1 /\ Len(bultos) >= 1
     /\ \A c \in Callers : input[c].op = "split")
    => OrderSheets(bultos, 1) = input["c1"].bundles * input["c1"].bundleSheets

\* the "asignar" and "utilizar" entries of a bundle
StatusEntries(ledger, i) ==
    {h \in EntriesOf(ledger, i) : ledger[h].accion \in {"asignar", "utilizar"}}

\* C33: when no call is in flight and no persistence call has failed, a bundle
\* that has an "asignar" or "utilizar" entry is "asignado" if the latest of
\* those entries is an "asignar" and "usado" if it is a "utilizar".
C33_StatusAgreesWithHistory ==
    (NoCallInFlight /\ failures = 0)
    => \A i \in BundleIds :
          StatusEntries(historial, i) # {}
          => LET latest == SetMax(StatusEntries(historial, i))
             IN bultos[i].estado
                   = (IF historial[latest].accion = "asignar" THEN "asignado" ELSE "usado")

\* C34: as long as no persistence call has failed, between any two "utilizar"
\* entries of a bundle the ledger has an "asignar" entry of that bundle.
C34_OneUsePerAssignment ==
    failures = 0
    => \A i \in BundleIds :
          \A h1, h2 \in EntriesOf(historial, i) :
             (/\ h1 < h2
              /\ historial[h1].accion = "utilizar"
              /\ historial[h2].accion = "utilizar")
             => \E h \in EntriesOf(historial, i) :
                   h1 < h /\ h < h2 /\ historial[h].accion = "asignar"

\* a bundle as fetchCutOrders reads it from the store, with its history
\* embedded, and as mapBundle projects it
StoredBundle(i) ==
    LET own == Ascending(EntriesOf(historial, i))
    IN [id |-> i,
        numero_bulto |-> bultos[i].numero_bulto,
        estado |-> bultos[i].estado,
        creado_en |-> bultos[i].creado_en,
        historial |-> [p \in 1..Len(own) |->
                          [accion |-> historial[own[p]].accion,
                           numero_trabajo |-> historial[own[p]].numero_trabajo,
                           ubicacion_destino |->
                               IF historial[own[p]].ubicacion_destino_id = 0 THEN <<>>
                               ELSE ubicaciones[historial[own[p]].ubicacion_destino_id],
                           fecha_hora |-> historial[own[p]].fecha_hora]]]

ProjectedWorkOrder(i) == mapBundle(StoredBundle(i)).workOrder

\* C35 for a bundle made by splitting a bundle that had been assigned: as long
\* as no persistence call has failed, a bundle that is "asignado" or "usado",
\* whose first entry is the "dividir" of a split made after an "asignar" of a
\* bundle of its group, projects a work order other than "Sin orden".
C35_SplitKeepsWorkOrder ==
    failures = 0
    => \A i, j \in BundleIds :
          (/\ i # j
           /\ bultos[i].orden_corte_id = bultos[j].orden_corte_id
           /\ Decoded(i).base = Decoded(j).base
           /\ bultos[j].estado \in {"asignado", "usado"}
           /\ EntriesOf(historial, j) # {}
           /\ LET first == CHOOSE h \in EntriesOf(historial, j) :
                                \A g \in EntriesOf(historial, j) : h <= g
              IN /\ historial[first].accion = "dividir"
                 /\ \E ha \in EntriesOf(historial, i) :
                       historial[ha].accion = "asignar" /\ ha < first)
          => ProjectedWorkOrder(j) # SIN_ORDEN

\* C36: applyBundleAction with action "mover" fails at once, with no bundle
\* updated and no history entry appended, when the destination code trimmed
\* and in upper case is empty or is not one of LOCATION_CODES; when the call
\* succeeds every targeted bundle is at the location whose code that is.
C36_MoveNeedsKnownCode ==
    [][\A c \in Callers :
          input[c].op = "mover" =>
             LET code == ToUpperCase(Trim(input[c].destinationCode))
             IN /\ (/\ call[c].pc = "idle" /\ call'[c].op = "mover"
                    /\ input[c].bundleIds # {}
                    /\ code \notin LOCATION_CODES)
                   => /\ call'[c].pc = "returned" /\ call'[c].at = "entry"
                      /\ result'[c] = "error"
                      /\ bultos' = bultos /\ historial' = historial
                /\ (call[c].op = "mover" /\ Returns(c, "ok"))
                   => /\ code \in LOCATION_CODES
                      /\ \A i \in input[c].bundleIds :
                            /\ bultos'[i].ubicacion_id \in 1..Len(ubicaciones')
                            /\ ubicaciones'[bultos'[i].ubicacion_id] = code]_vars

\* a move of an existing bundle to the code X1 has been refused
C36_Witness ==
    \E c \in Callers :
        /\ input[c].op = "mover" /\ input[c].bundleIds = {1}
        /\ input[c].destinationCode = <<"X", "1">>
        /\ call[c].op = "mover" /\ call[c].pc = "returned" /\ call[c].at = "entry"
        /\ result[c] = "error"
        /\ Len(bultos) >= 1 /\ Len(historial) = Len(bultos)

\* C37: no step of a splitBundle call changes an order, a location, an
\* existing history entry, a bundle other than the original, or the status,
\* location, order or creation time of the original; its number changes only
\* from a value below 1000; and a call that succeeds has added one bundle and
\* two history entries.
C37_SplitFrame ==
    [][\A c \in Callers :
          (/\ call[c].op = "split"
           /\ call[c].pc \notin {"idle", "returned"}
           /\ call'[c] # call[c])
          => LET o == call[c].bundleId
                 nb == Len(bultos)
                 nh == Len(historial)
             IN /\ ordenes' = ordenes
                /\ ubicaciones' = ubicaciones
                /\ SubSeq(historial', 1, nh) = historial
                /\ Len(bultos') >= nb
                /\ \A i \in 1..nb : i # o => bultos'[i] = bultos[i]
                /\ bultos'[o].estado = bultos[o].estado
                /\ bultos'[o].ubicacion_id = bultos[o].ubicacion_id
                /\ bultos'[o].orden_corte_id = bultos[o].orden_corte_id
                /\ bultos'[o].creado_en = bultos[o].creado_en
                /\ bultos'[o].numero_bulto # bultos[o].numero_bulto
                      => bultos[o].numero_bulto < BUNDLE_SPLIT_NUMBER_FACTOR
                /\ Len(bultos') = nb + (IF call'[c].pc = "s_hist" THEN 1 ELSE 0)
                /\ Len(historial') = nh + (IF Returns(c, "ok") THEN 2 ELSE 0)
                /\ Returns(c, "ok") => call[c].pc = "s_hist"]_vars

\* a split of the first of two bundles of an order has succeeded
C37_Witness ==
    /\ \E c \in Callers :
          call[c].op = "split" /\ call[c].pc = "returned" /\ result[c] = "ok"
    /\ Len(bultos) = 3 /\ Len(historial) = 4
    /\ bultos[1].numero_bulto = 1001 /\ bultos[2].numero_bulto = 2
    /\ bultos[3].numero_bulto = 1002
    /\ bultos[1].estado = "asignado"
    /\ historial[3].accion = "dividir" /\ historial[4].accion = "dividir"

\* C38: when no call is in flight every bundle has at least one history entry,
\* also after a persistence call of createCutOrder or splitBundle has failed.
C38_EveryBundleRecorded ==
    NoCallInFlight => \A i \in BundleIds : EntriesOf(historial, i) # {}
====
